---- MODULE Spec2Model ----
(***************************************************************************)
(* Airline ticket assistant (ticket_assistant.py): a price table in an     *)
(* SQLite file, two tool functions over it, the tool dispatcher and the    *)
(* chat loop that drives them.                                             *)
(*                                                                         *)
(* Strings that the program lower-cases (city names) are sequences of      *)
(* character codes, so that str.lower() is computed and not assumed.       *)
(* Prices are integers in thousandths of a dollar (799 dollars = 799000),  *)
(* one digit finer than the cents generate_random_price rounds to.         *)
(* Python values that may be None carry a type tag.                        *)
(***************************************************************************)
EXTENDS Integers, Sequences, FiniteSets, TLC

VARIABLES
    phase,      \* "boot" | "created" | "serving": position in __main__
    table,      \* committed rows of the prices table: [city, price]
    writer,     \* session holding SQLite's write lock, 0 when free
    dirty,      \* the lock holder's uncommitted image of the table
    call,       \* per session: the running tool function's locals
    chat,       \* per session: the locals of chat / handle_tool_calls
    lastWrite   \* history: per key, the operation that last committed it

vars == <<phase, table, writer, dirty, call, chat, lastWrite>>

----------------------------------------------------------------------------
(* Bounds *)

NumSessions == 2
MaxCalls == 2
MaxCycles == 1
MaxAttempts == 2

Sessions == 1 .. NumSessions

----------------------------------------------------------------------------
(* Python values *)

PyNone == [type |-> "NoneType"]
PyStr(s) == [type |-> "str", val |-> s]
PyNum(n) == [type |-> "num", val |-> n]
PyText(t) == [type |-> "text", val |-> t]

\* str.lower() on a sequence of character codes: 'A'..'Z' move to 'a'..'z'.
ToLower(s) == [i \in 1 .. Len(s) |-> IF s[i] \in 65 .. 90 THEN s[i] + 32 ELSE s[i]]

london == <<108, 111, 110, 100, 111, 110>>
paris  == <<112, 97, 114, 105, 115>>
tokyo  == <<116, 111, 107, 121, 111>>
sydney == <<115, 121, 100, 110, 101, 121>>
London == <<76, 111, 110, 100, 111, 110>>
Dubai  == <<68, 117, 98, 97, 105>>
dubai  == <<100, 117, 98, 97, 105>>

\* seed_database's initial_prices, in dict order.
initial_prices ==
    << [city |-> london, price |-> 799000],
       [city |-> paris,  price |-> 899000],
       [city |-> tokyo,  price |-> 1420000],
       [city |-> sydney, price |-> 2999000] >>

----------------------------------------------------------------------------
(* The prices table: city TEXT PRIMARY KEY, price REAL *)

\* SELECT price FROM prices WHERE city = ? ; fetchone(): a row or None.
SelectPrice(T, key) ==
    IF \E r \in T : r.city = key
    THEN [type |-> "row", val |-> (CHOOSE r \in T : r.city = key).price]
    ELSE PyNone

\* Variant: a table declared without PRIMARY KEY.
KeyConflict_Never(T, key) == FALSE

\* The PRIMARY KEY check of a plain INSERT.
KeyConflict(T, key) == \E r \in T : r.city = key

\* INSERT INTO prices (city, price) VALUES (?, ?), once the key check passed.
InsertRow(T, key, price) == T \cup {[city |-> key, price |-> price]}

\* Variants: ON CONFLICT DO NOTHING, and an INSERT that adds a second row.
UpsertRow_Ignore(T, key, price) ==
    IF KeyConflict(T, key) THEN T ELSE InsertRow(T, key, price)
UpsertRow_Append(T, key, price) == InsertRow(T, key, price)

\* Variant: on conflict, an UPDATE without its WHERE clause.
UpsertRow_AllRows(T, key, price) ==
    IF KeyConflict(T, key)
    THEN {[r EXCEPT !.price = price] : r \in T}
    ELSE InsertRow(T, key, price)

\* INSERT ... ON CONFLICT(city) DO UPDATE SET price = ?
UpsertRow(T, key, price) ==
    IF KeyConflict(T, key)
    THEN {IF r.city = key THEN [r EXCEPT !.price = price] ELSE r : r \in T}
    ELSE InsertRow(T, key, price)

\* seed_database's loop over initial_prices, one upsert per item.
RECURSIVE SeedRows(_, _)
SeedRows(T, i) ==
    IF i > Len(initial_prices) THEN T
    ELSE SeedRows(UpsertRow(T, initial_prices[i].city,
                            PyNum(initial_prices[i].price)), i + 1)

SeedKeys == {initial_prices[i].city : i \in DOMAIN initial_prices}

----------------------------------------------------------------------------
(* generate_random_price *)

PRICE_LOW == 299000
PRICE_HIGH == 2999000

\* random.uniform(a, b): any value of [a, b]; two sample draws, one near each
\* end, neither a whole cent.
Uniform(a, b) == {a + 4, b - 4}

\* round(x, 2): to the nearest cent, ties to the even cent.
Round2(x) ==
    LET q == x \div 10
        r == x % 10
    IN  IF r < 5 THEN q * 10
        ELSE IF r > 5 THEN (q + 1) * 10
        ELSE IF q % 2 = 0 THEN q * 10 ELSE (q + 1) * 10

generate_random_price == {Round2(x) : x \in Uniform(PRICE_LOW, PRICE_HIGH)}

----------------------------------------------------------------------------
(* Tool calls as the model API delivers them *)

\* function.arguments is a JSON object in text form: its members in order,
\* each <<name, value>>. json.loads keeps the last value of a repeated name.
JsonLoads(text) ==
    LET names == {text[i][1] : i \in DOMAIN text}
        last(n) == CHOOSE i \in DOMAIN text :
                      /\ text[i][1] = n
                      /\ \A j \in DOMAIN text : text[j][1] = n => j <= i
    IN  [n \in names |-> text[last(n)][2]]

\* dict.get(name): the value, or None when the name is missing.
ArgGet(arguments, name) ==
    IF name \in DOMAIN arguments THEN arguments[name] ELSE PyNone

GET == "get_ticket_price"
SET == "set_ticket_price"

----------------------------------------------------------------------------
(* Results of a tool function: a JSON payload returned, or an exception *)

Return(payload) == [kind |-> "return", val |-> payload]
Raise(exc) == [kind |-> "raise", val |-> [exc |-> exc]]
NoOut == [kind |-> "none", val |-> [exc |-> ""]]

\* f"{price:.2f}" raises TypeError on None.
Formats(price) == price.type = "num"

\* get_ticket_price's return for a fetched row.
FoundOut(city, rowprice) ==
    IF Formats(rowprice)
    THEN Return([status |-> "found", city |-> city, price |-> rowprice])
    ELSE Raise("TypeError")

\* get_ticket_price's return after the auto-generated row is committed.
NewlyAddedOut(city, new_price) ==
    Return([status |-> "newly_added", city |-> city, price |-> PyNum(new_price)])

\* set_ticket_price's return, built after the with block has committed.
SuccessOut(city, price) ==
    IF Formats(price)
    THEN Return([status |-> "success", city |-> city, price |-> price])
    ELSE Raise("TypeError")

\* Variant: the dispatcher looks the name up and fails.
UnknownOut_Raises(name) == Raise("KeyError")

\* handle_tool_calls' result for a name it does not know.
UnknownOut(name) == Return([error |-> <<"Unknown tool: ", name>>])

\* Variants that bind the city as it was given, without lower().
LookupKey_AsGiven(city) == city
InsertKey_AsGiven(city) == city
UpsertKey_AsGiven(city) == city

\* The key each statement binds: city.lower().
LookupKey(city) == ToLower(city)
InsertKey(city) == ToLower(city)
UpsertKey(city) == ToLower(city)

----------------------------------------------------------------------------
(* History: which operation last committed each key *)

\* by: "none" | "seed" | "auto" | "set"; city: the spelling the call was given;
\* prior, kept for a set: what it found under the key, "absent", the "same"
\* price or "other".
NoWrite == [by |-> "none", price |-> PyNone, city |-> PyNone, prior |-> "absent"]

Prior(T, key, price) ==
    IF ~ KeyConflict(T, key) THEN "absent"
    ELSE IF SelectPrice(T, key).val = price THEN "same" ELSE "other"

\* The last committed write of a key, and the history with one more write.
LastWrite(k) == IF k \in DOMAIN lastWrite THEN lastWrite[k] ELSE NoWrite
Written(k, w) ==
    [j \in DOMAIN lastWrite \cup {k} |-> IF j = k THEN w ELSE lastWrite[j]]

IdleCall == [pc |-> "idle", id |-> 0, name |-> "", city |-> PyNone,
             price |-> PyNone, result |-> PyNone, new_price |-> PyNone,
             out |-> NoOut]

\* message, history: chat's arguments as passed; ui_history: the caller's list
\* as it is now; attempt: which call of chat with these arguments this is.
IdleChat == [pc |-> "idle", message |-> PyNone, history |-> <<>>,
             ui_history |-> <<>>, attempt |-> 0, messages |-> <<>>,
             assistant_message |-> PyNone, i |-> 0, responses |-> <<>>,
             result |-> NoOut, resps |-> <<>>, nreq |-> 0, dispatched |-> <<>>]

\* The tool-role entry handle_tool_calls appends for one result.
ToolEntry(id, payload) ==
    [role |-> "tool", content |-> [type |-> "json", val |-> payload],
     tool_call_id |-> id]

\* Variant: the tool entries are put before the assistant message.
Resubmit_ToolsFirst(c, tool_responses) ==
    [c EXCEPT !.messages = (c.messages \o tool_responses) \o <<c.assistant_message>>,
              !.responses = tool_responses,
              !.pc = "awaiting",
              !.nreq = c.nreq + 1]

\* Variant: the next request carries only the last exchange.
Resubmit_Rebuild(c, tool_responses) ==
    [c EXCEPT !.messages = <<c.assistant_message>> \o tool_responses,
              !.responses = tool_responses,
              !.pc = "awaiting",
              !.nreq = c.nreq + 1]

\* Variant: the results are collected but the next request is never made.
Resubmit_Lost(c, tool_responses) ==
    [c EXCEPT !.messages = (c.messages \o <<c.assistant_message>>) \o tool_responses,
              !.responses = tool_responses,
              !.pc = "collected"]

\* chat, once handle_tool_calls has returned: the assistant message, then the
\* tool entries, then the next request.
Resubmit(c, tool_responses) ==
    [c EXCEPT !.messages = (c.messages \o <<c.assistant_message>>) \o tool_responses,
              !.responses = tool_responses,
              !.pc = "awaiting",
              !.nreq = c.nreq + 1]

\* Variant: the results are collected newest first.
AfterCall_Reversed(c, id, out) ==
    IF c.pc # "handling" THEN c
    ELSE IF out.kind = "raise" THEN [c EXCEPT !.pc = "raised", !.result = out]
    ELSE LET responses == <<ToolEntry(id, out.val)>> \o c.responses
         IN  IF c.i < Len(c.assistant_message.tool_calls)
             THEN [c EXCEPT !.responses = responses, !.i = c.i + 1]
             ELSE Resubmit([c EXCEPT !.i = c.i + 1], responses)

\* What a finished tool function means to the session's chat: nothing when the
\* call was not made by handle_tool_calls; an exception leaves chat; a result is
\* appended to responses and the loop moves on, or returns after the last call.
AfterCall(c, id, out) ==
    IF c.pc # "handling" THEN c
    ELSE IF out.kind = "raise" THEN [c EXCEPT !.pc = "raised", !.result = out]
    ELSE LET responses == Append(c.responses, ToolEntry(id, out.val))
         IN  IF c.i < Len(c.assistant_message.tool_calls)
             THEN [c EXCEPT !.responses = responses, !.i = c.i + 1]
             ELSE Resubmit([c EXCEPT !.i = c.i + 1], responses)

\* History: handle_tool_calls hands the call with this id to a tool function.
Dispatched(c, id) ==
    IF c.pc = "handling" THEN [c EXCEPT !.dispatched = Append(@, id)] ELSE c

\* The tool function of session s ends with `out`; h is its chat record.
Complete(s, h, c, out) ==
    /\ call' = [call EXCEPT ![s] = [c EXCEPT !.pc = "done", !.out = out]]
    /\ chat' = [chat EXCEPT ![s] = AfterCall(h, c.id, out)]

\* The tool function of session s goes on to its next store step.
Continue(s, h, c) ==
    /\ call' = [call EXCEPT ![s] = c]
    /\ chat' = [chat EXCEPT ![s] = h]

----------------------------------------------------------------------------
(* __main__: init_database, seed_database, then the interface is served *)

Init ==
    /\ phase = "boot"
    /\ table = {}
    /\ writer = 0
    /\ dirty = {}
    /\ call = [s \in Sessions |-> IdleCall]
    /\ chat = [s \in Sessions |-> IdleChat]
    /\ lastWrite = [k \in {} |-> NoWrite]

\* CREATE TABLE IF NOT EXISTS: the rows of an existing file are kept.
init_database ==
    /\ phase = "boot"
    /\ phase' = "created"
    /\ UNCHANGED <<table, writer, dirty, call, chat, lastWrite>>

seed_database ==
    /\ phase = "created"
    /\ phase' = "serving"
    /\ table' = SeedRows(table, 1)
    /\ lastWrite' = [k \in DOMAIN lastWrite \cup SeedKeys |->
          IF k \in SeedKeys
          THEN [by |-> "seed", price |-> SelectPrice(SeedRows(table, 1), k).val,
                city |-> PyStr(k),
                prior |-> "absent"]
          ELSE lastWrite[k]]
    /\ UNCHANGED <<writer, dirty, call, chat>>

\* The process ends and is started again: its threads and their open
\* transactions are gone, the file keeps the committed rows.
Restart ==
    /\ phase = "serving"
    /\ phase' = "boot"
    /\ writer' = 0
    /\ dirty' = {}
    /\ call' = [s \in Sessions |-> IdleCall]
    /\ chat' = [s \in Sessions |-> IdleChat]
    /\ UNCHANGED <<table, lastWrite>>

----------------------------------------------------------------------------
(* get_ticket_price *)

\* Lines 85-98: the SELECT and, for a fetched row, the return.
GetSelect(s, tc, city) ==
    LET c0 == [IdleCall EXCEPT !.pc = "select", !.id = tc.id, !.name = tc.name,
                               !.city = city]
        h == Dispatched(chat[s], tc.id)
    IN  /\ IF city.type # "str"
           THEN Complete(s, h, c0, Raise("AttributeError"))
           ELSE LET key == LookupKey(city.val)
                    result == SelectPrice(table, key)
                    c1 == [c0 EXCEPT !.result = result]
                IN  IF result.type = "row"
                    THEN Complete(s, h, c1, FoundOut(city, result.val))
                    ELSE Continue(s, h, [c1 EXCEPT !.pc = "insert"])
        /\ UNCHANGED <<phase, table, writer, dirty, lastWrite>>

\* Lines 99-105: generate a price and INSERT it. The INSERT opens the
\* transaction and takes the write lock, waiting while another session holds
\* it; a row with the key raises IntegrityError and the with block rolls back.
GetInsert(s) ==
    /\ call[s].pc = "insert"
    /\ writer = 0
    /\ \E new_price \in generate_random_price :
         LET c == [call[s] EXCEPT !.new_price = PyNum(new_price)]
             key == InsertKey(c.city.val)
         IN  IF KeyConflict(table, key)
             THEN /\ Complete(s, chat[s], c, Raise("IntegrityError"))
                  /\ UNCHANGED <<writer, dirty>>
             ELSE /\ Continue(s, chat[s], [c EXCEPT !.pc = "commit"])
                  /\ writer' = s
                  /\ dirty' = InsertRow(table, key, c.new_price)
    /\ UNCHANGED <<phase, table, lastWrite>>

\* Lines 106-118: commit and return the newly added price.
GetCommit(s) ==
    /\ call[s].pc = "commit"
    /\ call[s].name = GET
    /\ writer = s
    /\ table' = dirty
    /\ writer' = 0
    /\ dirty' = {}
    /\ LET key == InsertKey(call[s].city.val)
       IN  lastWrite' = Written(key,
              [by |-> "auto", price |-> call[s].new_price, city |-> call[s].city,
               prior |-> "absent"])
    /\ Complete(s, chat[s], call[s], NewlyAddedOut(call[s].city, call[s].new_price.val))
    /\ UNCHANGED phase

----------------------------------------------------------------------------
(* set_ticket_price *)

\* Lines 123-131: the upsert, which takes the write lock.
SetUpsert(s, tc, city, price) ==
    LET c0 == [IdleCall EXCEPT !.pc = "upsert", !.id = tc.id, !.name = tc.name,
                               !.city = city, !.price = price]
        h == Dispatched(chat[s], tc.id)
    IN  /\ IF city.type # "str"
           THEN /\ Complete(s, h, c0, Raise("AttributeError"))
                /\ UNCHANGED <<writer, dirty>>
           ELSE LET key == UpsertKey(city.val)
                IN  /\ writer = 0
                    /\ writer' = s
                    /\ dirty' = UpsertRow(table, key, price)
                    /\ Continue(s, h, [c0 EXCEPT !.pc = "commit"])
        /\ UNCHANGED <<phase, table, lastWrite>>

\* Lines 132-139: commit, then build the return value.
SetCommit(s) ==
    /\ call[s].pc = "commit"
    /\ call[s].name = SET
    /\ writer = s
    /\ table' = dirty
    /\ writer' = 0
    /\ dirty' = {}
    /\ LET key == UpsertKey(call[s].city.val)
       IN  lastWrite' = Written(key,
              [by |-> "set", price |-> call[s].price, city |-> call[s].city,
               prior |-> Prior(table, key, call[s].price)])
    /\ Complete(s, chat[s], call[s], SuccessOut(call[s].city, call[s].price))
    /\ UNCHANGED phase

----------------------------------------------------------------------------
(* handle_tool_calls: one iteration of its loop, up to the first store step *)

UnknownTool(s, tc) ==
    /\ Complete(s, Dispatched(chat[s], tc.id),
                [IdleCall EXCEPT !.id = tc.id, !.name = tc.name],
                UnknownOut(tc.name))
    /\ UNCHANGED <<phase, table, writer, dirty, lastWrite>>

Dispatch(s, tc) ==
    LET arguments == JsonLoads(tc.arguments)
    IN  CASE tc.name = GET ->
               GetSelect(s, tc, ArgGet(arguments, "destination_city"))
          [] tc.name = SET ->
               SetUpsert(s, tc, ArgGet(arguments, "destination_city"),
                         ArgGet(arguments, "price"))
          [] OTHER -> UnknownTool(s, tc)

----------------------------------------------------------------------------
(* Sessions that call the tools, seen from the store *)

CityArgs == {Dubai, dubai, London}

ToolCall(id, name, arguments) == [id |-> id, name |-> name, arguments |-> arguments]

CityMember(c) == <<"destination_city", PyStr(c)>>
PriceMember(p) == <<"price", PyNum(p)>>

SetArgs == {<<Dubai, 1500000>>, <<dubai, 899000>>, <<London, 899000>>}

StoreToolCalls ==
    {ToolCall(1, GET, <<CityMember(c)>>) : c \in CityArgs}
    \cup {ToolCall(1, SET, <<CityMember(a[1]), PriceMember(a[2])>>) : a \in SetArgs}

\* A session's turn reaches a tool call: the store sees the dispatch.
ToolCallArrives(s) ==
    /\ phase = "serving"
    /\ chat[s].pc = "idle"
    /\ call[s].pc \in {"idle", "done"}
    /\ \E tc \in StoreToolCalls : Dispatch(s, tc)

NextStore ==
    \/ init_database
    \/ seed_database
    \/ Restart
    \/ \E s \in Sessions :
         \/ ToolCallArrives(s)
         \/ GetInsert(s)
         \/ GetCommit(s)
         \/ SetCommit(s)

SpecStore == Init /\ [][NextStore]_vars

----------------------------------------------------------------------------
(* chat *)

SYSTEM_MESSAGE == PyText("You are a helpful airline ticket assistant.")

\* The history the interface passes in: entries with more than role and content.
HistoryEntry(role, text) == [role |-> role, content |-> PyText(text), metadata |-> PyNone]

Histories == {<<>>, <<HistoryEntry("user", "hi"), HistoryEntry("assistant", "hello")>>}
Messages == {PyText("How much to Dubai?")}

\* Line 234: each history entry cut down to its role and its content.
StripHistory(history) ==
    [i \in DOMAIN history |-> [role |-> history[i].role, content |-> history[i].content]]

\* Lines 235-239: the first transcript.
FirstTranscript(message, history) ==
    (<<[role |-> "system", content |-> SYSTEM_MESSAGE]>> \o StripHistory(history))
        \o <<[role |-> "user", content |-> message]>>

\* Variant: the new user message is appended to the list the caller passed.
StartTurn_Appends(message, history) ==
    [IdleChat EXCEPT !.pc = "awaiting", !.message = message, !.history = history,
                     !.ui_history = Append(history, [role |-> "user", content |-> message,
                                                     metadata |-> PyNone]),
                     !.messages = FirstTranscript(message, history),
                     !.nreq = 1]

\* Lines 233-246: line 234 binds the name history to a new list, the messages
\* are another new list, and the first request is sent. The list the caller
\* passed is only read.
StartTurn(message, history) ==
    [IdleChat EXCEPT !.pc = "awaiting", !.message = message, !.history = history,
                     !.ui_history = history,
                     !.messages = FirstTranscript(message, history),
                     !.nreq = 1]

ChatStart(s) ==
    /\ phase = "serving"
    /\ chat[s].pc = "idle"
    /\ \E message \in Messages, history \in Histories :
         chat' = [chat EXCEPT ![s] = [StartTurn(message, history) EXCEPT !.attempt = 1]]
    /\ UNCHANGED <<phase, table, writer, dirty, call, lastWrite>>

\* The turn failed on a request to the model and the user sends the message
\* again: the interface calls chat with the message and the history it holds.
ChatRetry(s) ==
    /\ phase = "serving"
    /\ chat[s].pc = "raised"
    /\ chat[s].result = Raise("APIError")
    /\ chat[s].attempt < MaxAttempts
    /\ chat' = [chat EXCEPT ![s] =
          [StartTurn(chat[s].message, chat[s].ui_history)
              EXCEPT !.attempt = chat[s].attempt + 1]]
    /\ UNCHANGED <<phase, table, writer, dirty, call, lastWrite>>

\* The tool calls the model may ask for: name and arguments text.
ChatCalls ==
    { [name |-> GET, arguments |-> <<CityMember(Dubai)>>],
      [name |-> GET, arguments |-> <<>>],
      [name |-> SET, arguments |-> <<PriceMember(1500000), CityMember(London)>>],
      [name |-> SET, arguments |-> <<CityMember(Dubai)>>],
      [name |-> "book_flight", arguments |-> <<CityMember(Dubai)>>] }

RECURSIVE CallLists(_)
CallLists(n) ==
    IF n = 0 THEN {<<>>}
    ELSE {Append(l, t) : l \in CallLists(n - 1), t \in ChatCalls}

\* The model numbers its calls: the j-th call of the n-th response.
WithIds(n, l) == [j \in DOMAIN l |-> ToolCall(10 * n + j, l[j].name, l[j].arguments)]

AssistantMessage(content, tool_calls) ==
    [role |-> "assistant", content |-> content, tool_calls |-> tool_calls]

\* The responses the model API may give to the n-th request of a turn.
Responses(n) ==
    {[finish_reason |-> "tool_calls",
      message |-> AssistantMessage(PyNone, WithIds(n, l))] :
        l \in UNION {CallLists(k) : k \in 1 .. MaxCalls}}
    \cup {[finish_reason |-> "stop",
           message |-> AssistantMessage(PyText("final answer"), <<>>)],
          [finish_reason |-> "length",
           message |-> AssistantMessage(PyText("cut short"),
                           WithIds(n, <<[name |-> SET,
                                         arguments |-> <<CityMember(Dubai)>>]>>))]}

\* Variant: the loop looks at the message's tool calls, not the finish reason.
WantsTools_ByCalls(response) == Len(response.message.tool_calls) > 0

\* Line 249: the loop condition.
WantsTools(response) == response.finish_reason = "tool_calls"

\* Lines 242-262: a response arrives. The loop condition sends it to
\* handle_tool_calls, or chat returns its content.
ModelResponds(s) ==
    /\ chat[s].pc = "awaiting"
    /\ \E response \in Responses(chat[s].nreq) :
         IF WantsTools(response)
         THEN /\ Len(chat[s].resps) < MaxCycles
              /\ chat' = [chat EXCEPT ![s] =
                    [@ EXCEPT !.pc = "handling",
                              !.assistant_message = response.message,
                              !.i = 1, !.responses = <<>>,
                              !.resps = Append(@, response)]]
         ELSE chat' = [chat EXCEPT ![s] =
                    [@ EXCEPT !.pc = "returned",
                              !.result = Return(response.message.content),
                              !.resps = Append(@, response)]]
    /\ UNCHANGED <<phase, table, writer, dirty, call, lastWrite>>

\* openai.chat.completions.create raises: chat has no handler, the turn fails.
ModelFault(s) ==
    /\ chat[s].pc = "awaiting"
    /\ chat' = [chat EXCEPT ![s] = [@ EXCEPT !.pc = "raised", !.result = Raise("APIError")]]
    /\ UNCHANGED <<phase, table, writer, dirty, call, lastWrite>>

\* Lines 203-216: the loop of handle_tool_calls takes its next tool call.
HandleToolCall(s) ==
    /\ chat[s].pc = "handling"
    /\ call[s].pc \in {"idle", "done"}
    /\ Dispatch(s, chat[s].assistant_message.tool_calls[chat[s].i])

----------------------------------------------------------------------------
(* One conversation *)

ChatSessions == {1}

Next ==
    \/ init_database
    \/ seed_database
    \/ Restart
    \/ \E s \in ChatSessions :
         \/ ChatStart(s)
         \/ ModelResponds(s)
         \/ ModelFault(s)
         \/ HandleToolCall(s)
    \/ \E s \in Sessions :
         \/ GetInsert(s)
         \/ GetCommit(s)
         \/ SetCommit(s)

Spec == Init /\ [][Next]_vars

----------------------------------------------------------------------------
(* One conversation in a process that stays up: the statements of the      *)
(* thread are executed one after the other and every request to the model  *)
(* API comes back, with a response or with an exception.                   *)

\* The thread's next statement after the call of chat.
TurnStep(s) ==
    \/ ModelResponds(s)
    \/ ModelFault(s)
    \/ HandleToolCall(s)
    \/ GetInsert(s)
    \/ GetCommit(s)
    \/ SetCommit(s)

NextLive ==
    \/ init_database
    \/ seed_database
    \/ \E s \in ChatSessions : ChatStart(s) \/ TurnStep(s)

Fairness == \A s \in ChatSessions : WF_vars(TurnStep(s))

SpecLive == Init /\ [][NextLive]_vars /\ Fairness

----------------------------------------------------------------------------
(* The same conversation, whose user sends the message again after a turn  *)
(* that failed on a request.                                               *)

NextRetry ==
    \/ init_database
    \/ seed_database
    \/ \E s \in ChatSessions : ChatStart(s) \/ ChatRetry(s) \/ TurnStep(s)

SpecRetry == Init /\ [][NextRetry]_vars

----------------------------------------------------------------------------
(* One conversation while another session uses the store *)

Background == {NumSessions}

BackgroundCalls == {ToolCall(1, GET, <<CityMember(dubai)>>)}

\* The other session's turn reaches a tool call.
BackgroundCallArrives(s) ==
    /\ phase = "serving"
    /\ chat[s].pc = "idle"
    /\ call[s].pc \in {"idle", "done"}
    /\ \E tc \in BackgroundCalls : Dispatch(s, tc)

NextTurn ==
    \/ init_database
    \/ seed_database
    \/ Restart
    \/ \E s \in ChatSessions :
         \/ ChatStart(s)
         \/ ModelResponds(s)
         \/ ModelFault(s)
         \/ HandleToolCall(s)
    \/ \E s \in Background : BackgroundCallArrives(s)
    \/ \E s \in Sessions :
         \/ GetInsert(s)
         \/ GetCommit(s)
         \/ SetCommit(s)

SpecTurn == Init /\ [][NextTurn]_vars

----------------------------------------------------------------------------
(* Vocabulary of the claims *)

IsGet(c) == c.name = GET /\ c.city.type = "str"
IsSet(c) == c.name = SET /\ c.city.type = "str"

\* The lower-cased city name a call is about.
KeyOf(c) == ToLower(c.city.val)

\* In this step handle_tool_calls hands a tool call of session s to its function.
Starts(s) ==
    /\ call[s].pc \in {"idle", "done"}
    /\ call'[s] # call[s]
    /\ call'[s].pc # "idle"

\* In this step a tool function of session s returns or raises.
Finishes(s) == call'[s] # call[s] /\ call'[s].pc = "done"

\* In this step session s commits its write.
Commits(s) == call[s].pc = "commit" /\ call'[s].pc = "done"

EntriesFor(T, k) == {r \in T : ToLower(r.city) = k}

InRange(price) == price.type = "num" /\ PRICE_LOW <= price.val /\ price.val <= PRICE_HIGH

Found(c, price) == c.pc = "done" /\ c.out = Return([status |-> "found", city |-> c.city, price |-> price])

----------------------------------------------------------------------------
(* C1: when two or more sessions look up the same city that has no entry    *)
(* yet (each SELECT found no row) and nothing but the lookups writes the    *)
(* city, one price is persisted for it and every one of the calls returns   *)
(* that price.                                                              *)

FirstLookups(k) ==
    {s \in Sessions : /\ call[s].pc = "done"
                      /\ IsGet(call[s])
                      /\ KeyOf(call[s]) = k
                      /\ call[s].result = PyNone}

C1_FirstLookupsAgree ==
    \A k \in {ToLower(c) : c \in CityArgs} :
        (Cardinality(FirstLookups(k)) >= 2 /\ LastWrite(k).by = "auto") =>
            /\ Cardinality(EntriesFor(table, k)) = 1
            /\ \A s \in FirstLookups(k) :
                 /\ call[s].out.kind = "return"
                 /\ call[s].out.val.price = LastWrite(k).price

----------------------------------------------------------------------------
(* C2: a get for a city without an entry that comes back first returns      *)
(* "newly_added" with a price in [299.00, 2999.00] and that price is in the *)
(* table; a get under any spelling of the city that begins while the        *)
(* auto-generated price is the last write of its key returns "found" with   *)
(* that price, without generating or writing anything.                      *)

C2_Step ==
    \A s \in Sessions :
        IsGet(call'[s]) =>
            LET c == call'[s]
                k == KeyOf(c)
            IN  /\ (Finishes(s) /\ ~ KeyConflict(table, k)) =>
                      /\ c.out.kind = "return"
                      /\ c.out.val.status = "newly_added"
                      /\ InRange(c.out.val.price)
                      /\ [city |-> k, price |-> c.out.val.price] \in table'
                /\ (Starts(s) /\ LastWrite(k).by = "auto") =>
                      /\ Found(c, LastWrite(k).price)
                      /\ InRange(LastWrite(k).price)
                      /\ table' = table
                      /\ dirty' = dirty

C2_AutoPricePersists == [][C2_Step]_vars

\* One session was told "newly_added", another, under another spelling, "found"
\* with the same price.
C2_Witness ==
    \E s1, s2 \in Sessions :
        /\ call[s1].pc = "done" /\ IsGet(call[s1])
        /\ call[s1].out.kind = "return"
        /\ call[s1].out.val.status = "newly_added"
        /\ IsGet(call[s2]) /\ KeyOf(call[s2]) = KeyOf(call[s1])
        /\ call[s2].city # call[s1].city
        /\ Found(call[s2], call[s1].out.val.price)
        /\ LastWrite(KeyOf(call[s1])).by = "auto"

----------------------------------------------------------------------------
(* C3: the table never holds two entries whose city names are equal once    *)
(* lower-cased.                                                             *)

C3_OneEntryPerCity ==
    \A r1, r2 \in table : ToLower(r1.city) = ToLower(r2.city) => r1 = r2

\* Both spellings of a city have been written, by a set and by another set or
\* an auto-generation, and the table holds one entry for it.
C3_Witness ==
    \E s1, s2 \in Sessions :
        /\ call[s1].pc = "done" /\ IsSet(call[s1]) /\ call[s1].out.kind = "return"
        /\ call[s2].pc = "done" /\ call[s2].city.type = "str"
        /\ call[s2].out.kind = "return"
        /\ call[s2].out.val.status \in {"success", "newly_added"}
        /\ call[s2].city # call[s1].city
        /\ KeyOf(call[s2]) = KeyOf(call[s1])
        /\ Cardinality(EntriesFor(table, KeyOf(call[s1]))) = 1

----------------------------------------------------------------------------
(* C4: every entry of the table has a numeric price, never NULL, whatever   *)
(* tool calls the model sends through handle_tool_calls.                    *)

C4_NoNullPrice == \A r \in table : r.price.type = "num"

----------------------------------------------------------------------------
(* C5: spellings that differ only in letter case are one key. A get that    *)
(* begins while the last write of its key is a set made under another       *)
(* spelling returns "found" with the price that was set; and once a set or  *)
(* an auto-generation commits, the table holds exactly one entry for the    *)
(* city, under the lower-cased name.                                        *)

WrittenPrice(c) == IF c.name = GET THEN c.new_price ELSE c.price

C5_Step ==
    \A s \in Sessions :
        call'[s].city.type = "str" =>
            LET c == call'[s]
                k == KeyOf(c)
            IN  /\ ( /\ Starts(s) /\ IsGet(c)
                     /\ LastWrite(k).by = "set"
                     /\ LastWrite(k).city # c.city ) =>
                       /\ Found(c, LastWrite(k).price)
                       /\ table' = table
                /\ Commits(s) =>
                       EntriesFor(table', k) = {[city |-> k, price |-> WrittenPrice(c)]}

C5_CaseInsensitiveKey == [][C5_Step]_vars

\* A get under one spelling has returned the price set under another.
C5_Witness ==
    \E s \in Sessions :
        /\ IsGet(call[s])
        /\ LastWrite(KeyOf(call[s])).by = "set"
        /\ LastWrite(KeyOf(call[s])).city # call[s].city
        /\ Found(call[s], LastWrite(KeyOf(call[s])).price)
        /\ Cardinality(EntriesFor(table, KeyOf(call[s]))) = 1

----------------------------------------------------------------------------
(* C6: a get for city c that begins while the last write of c's key is      *)
(* set_ticket_price(c, p) returns "found" with price p, whether the set     *)
(* created the entry or updated one.                                        *)

C6_Step ==
    \A s \in Sessions :
        IsGet(call'[s]) =>
            LET c == call'[s]
                k == KeyOf(c)
            IN  ( /\ Starts(s)
                  /\ LastWrite(k).by = "set"
                  /\ LastWrite(k).city = c.city
                  /\ LastWrite(k).price.type = "num" ) =>
                    Found(c, LastWrite(k).price)

C6_SetThenGet == [][C6_Step]_vars

ReadBack(s, prior) ==
    /\ IsGet(call[s])
    /\ LastWrite(KeyOf(call[s])).by = "set"
    /\ LastWrite(KeyOf(call[s])).city = call[s].city
    /\ LastWrite(KeyOf(call[s])).prior = prior
    /\ Found(call[s], LastWrite(KeyOf(call[s])).price)

\* One session read back a price whose set created the entry, another a price
\* whose set replaced an earlier one.
C6_Witness ==
    \E s1, s2 \in Sessions : ReadBack(s1, "absent") /\ ReadBack(s2, "other")

----------------------------------------------------------------------------
(* C7: a set that commits leaves exactly one entry for the lower-cased city *)
(* with the price it was given, and when the last write of that key was a   *)
(* set of the same price the table after the commit is the table before it. *)

C7_Step ==
    \A s \in Sessions :
        (Commits(s) /\ IsSet(call[s])) =>
            LET k == KeyOf(call[s])
                p == call[s].price
            IN  /\ EntriesFor(table', k) = {[city |-> k, price |-> p]}
                /\ (LastWrite(k).by = "set" /\ LastWrite(k).price = p) =>
                       table' = table

C7_SetIdempotent == [][C7_Step]_vars

\* Two sessions have made the same set, the later one on top of the earlier.
C7_Witness ==
    \E s1, s2 \in Sessions :
        /\ s1 # s2
        /\ call[s1].pc = "done" /\ IsSet(call[s1]) /\ call[s1].out.kind = "return"
        /\ call[s2].pc = "done" /\ IsSet(call[s2]) /\ call[s2].out.kind = "return"
        /\ call[s1].city = call[s2].city
        /\ call[s1].price = call[s2].price
        /\ LastWrite(KeyOf(call[s1])).by = "set"
        /\ LastWrite(KeyOf(call[s1])).price = call[s1].price
        /\ LastWrite(KeyOf(call[s1])).prior = "same"

----------------------------------------------------------------------------
(* C8: when handle_tool_calls takes up a tool call whose name is neither    *)
(* get_ticket_price nor set_ticket_price, nothing is raised: the entry      *)
(* {role: tool, content: {error: "Unknown tool: <name>"}, tool_call_id: the *)
(* call's id} is appended to the responses, the store is left as it was,    *)
(* and the loop moves to the next tool call of the response (or, after the  *)
(* last one, chat resubmits).                                               *)

C8_Step ==
    \A s \in Sessions :
        ( /\ chat[s].pc = "handling"
          /\ call[s].pc \in {"idle", "done"}
          /\ chat'[s] # chat[s]
          /\ phase' = phase ) =>
            LET h == chat[s]
                tc == h.assistant_message.tool_calls[h.i]
                entry == ToolEntry(tc.id, [error |-> <<"Unknown tool: ", tc.name>>])
            IN  tc.name \notin {GET, SET} =>
                  /\ chat'[s].pc # "raised"
                  /\ chat'[s].responses = Append(h.responses, entry)
                  /\ chat'[s].i = h.i + 1
                  /\ <<table, dirty, writer>>' = <<table, dirty, writer>>
                  /\ IF h.i < Len(h.assistant_message.tool_calls)
                     THEN chat'[s].pc = "handling" /\ chat'[s].messages = h.messages
                     ELSE chat'[s].pc = "awaiting"

----------------------------------------------------------------------------
(* C9: in the transcript chat holds and submits, every tool entry appended  *)
(* in the turn (after the system prompt, the history and the user message)  *)
(* comes after an assistant entry whose tool calls include one with the     *)
(* entry's tool_call_id.                                                    *)

Requested(m, i) ==
    \E j \in 1 .. (i - 1) :
        /\ m[j].role = "assistant"
        /\ "tool_calls" \in DOMAIN m[j]
        /\ \E n \in DOMAIN m[j].tool_calls : m[j].tool_calls[n].id = m[i].tool_call_id

C9_ToolEntriesFollowRequest ==
    \A s \in Sessions :
        \A i \in DOMAIN chat[s].messages :
            (i > Len(chat[s].history) + 2 /\ chat[s].messages[i].role = "tool") =>
                Requested(chat[s].messages, i)

\* A transcript with two tool entries has been submitted.
C9_Witness ==
    \E s \in Sessions :
        /\ chat[s].pc = "awaiting"
        /\ Cardinality({i \in DOMAIN chat[s].messages :
                           chat[s].messages[i].role = "tool"}) >= 2

----------------------------------------------------------------------------
(* C10: chat returns exactly on the first response whose finish reason is   *)
(* not tool_calls. A response with another finish reason is the last one    *)
(* received and chat has returned its content; every response before it     *)
(* asked for tools; the tool calls dispatched in the turn are those of the  *)
(* earlier responses, none of the last; and one request was made per        *)
(* response received.                                                       *)

CallIds(response) ==
    [j \in DOMAIN response.message.tool_calls |-> response.message.tool_calls[j].id]

RECURSIVE IdsUpTo(_, _)
IdsUpTo(resps, n) == IF n = 0 THEN <<>> ELSE IdsUpTo(resps, n - 1) \o CallIds(resps[n])

C10_ReturnsOnFirstFinal ==
    \A s \in Sessions :
        LET c == chat[s]
            n == Len(c.resps)
        IN  /\ \A j \in 1 .. n :
                 c.resps[j].finish_reason # "tool_calls" => (j = n /\ c.pc = "returned")
            /\ c.pc = "returned" =>
                 /\ n >= 1
                 /\ c.resps[n].finish_reason # "tool_calls"
                 /\ c.result = Return(c.resps[n].message.content)
                 /\ c.nreq = n
                 /\ c.dispatched = IdsUpTo(c.resps, n - 1)

\* chat returned after a round of tool calls, on a final response that itself
\* carried a tool call.
C10_Witness ==
    \E s \in Sessions :
        /\ chat[s].pc = "returned"
        /\ Len(chat[s].resps) >= 2
        /\ Len(chat[s].resps[Len(chat[s].resps)].message.tool_calls) > 0
        /\ Len(chat[s].dispatched) > 0

----------------------------------------------------------------------------
(* C11: a price persisted by set_ticket_price or by auto-generation         *)
(* survives a restart. When the startup sequence ends (seed_database has    *)
(* run again), every entry whose last write was a set or an auto-generation *)
(* is still what the SELECT of get_ticket_price fetches for that city, the  *)
(* seeded cities included.                                                  *)

StartupEnds == phase = "created" /\ phase' = "serving"

C11_Step ==
    StartupEnds =>
        \A r \in table :
            LastWrite(r.city).by \in {"set", "auto"} =>
                SelectPrice(table', LookupKey(r.city)) = [type |-> "row", val |-> r.price]

C11_SurvivesRestart == [][C11_Step]_vars

----------------------------------------------------------------------------
(* C12: for a response carrying k tool calls, handle_tool_calls dispatches  *)
(* each call once, in the order listed; each result that comes back is      *)
(* appended as the tool entry of the call at the loop's position, with that *)
(* call's id; and when the next request has been made the transcript ends   *)
(* with the assistant message followed by exactly k tool entries, the i-th  *)
(* answering the i-th call, no request having been made in between.         *)

\* The payload is a result of the tool the call names, for its arguments.
Answers(tc, payload) ==
    LET arguments == JsonLoads(tc.arguments)
    IN  CASE tc.name = GET ->
               /\ "status" \in DOMAIN payload
               /\ payload.status \in {"found", "newly_added"}
               /\ payload.city = ArgGet(arguments, "destination_city")
          [] tc.name = SET ->
               /\ "status" \in DOMAIN payload
               /\ payload.status = "success"
               /\ payload.city = ArgGet(arguments, "destination_city")
               /\ payload.price = ArgGet(arguments, "price")
          [] OTHER -> "error" \in DOMAIN payload

\* How many calls of the current response have been handed to a tool function.
Handed(s) == IF call[s].pc \in {"idle", "done"} THEN chat[s].i - 1 ELSE chat[s].i

C12_Inv ==
    \A s \in Sessions :
        LET c == chat[s]
            n == Len(c.resps)
        IN  /\ c.pc = "handling" =>
                 /\ c.nreq = n
                 /\ c.dispatched =
                      IdsUpTo(c.resps, n - 1) \o SubSeq(CallIds(c.resps[n]), 1, Handed(s))
                 /\ Len(c.responses) = c.i - 1
            /\ (c.pc = "awaiting" /\ n >= 1) =>
                 LET m == c.resps[n].message
                     k == Len(m.tool_calls)
                     base == Len(c.messages) - k - 1
                 IN  /\ c.nreq = n + 1
                     /\ c.dispatched = IdsUpTo(c.resps, n)
                     /\ base >= Len(c.history) + 2
                     /\ c.messages[base + 1] = m
                     /\ \A i \in 1 .. k :
                          /\ c.messages[base + 1 + i].role = "tool"
                          /\ c.messages[base + 1 + i].tool_call_id = m.tool_calls[i].id
                          /\ Answers(m.tool_calls[i], c.messages[base + 1 + i].content.val)

C12_Step ==
    \A s \in Sessions :
        (chat[s].pc = "handling" /\ Finishes(s) /\ call'[s].out.kind = "return") =>
            LET h == chat[s]
                tc == h.assistant_message.tool_calls[h.i]
            IN  /\ call'[s].name = tc.name
                /\ chat'[s].responses =
                     Append(h.responses,
                            [role |-> "tool",
                             content |-> [type |-> "json", val |-> call'[s].out.val],
                             tool_call_id |-> tc.id])

C12_EachCallAnsweredInOrder == []C12_Inv /\ [][C12_Step]_vars

\* A response asked for two different tools; both were answered and the
\* transcript with the two entries has been resubmitted.
C12_Witness ==
    \E s \in Sessions :
        LET c == chat[s]
        IN  /\ c.pc = "awaiting"
            /\ Len(c.resps) = 1
            /\ Len(c.resps[1].message.tool_calls) = 2
            /\ c.resps[1].message.tool_calls[1].name # c.resps[1].message.tool_calls[2].name
            /\ Len(c.dispatched) = 2
            /\ c.messages[Len(c.messages)].tool_call_id = c.resps[1].message.tool_calls[2].id
            /\ c.messages[Len(c.messages) - 1].tool_call_id = c.resps[1].message.tool_calls[1].id

----------------------------------------------------------------------------
(* C13: when a store operation fails inside a tool function during a turn   *)
(* (here the INSERT of an auto-generated price meeting a row that another   *)
(* session committed after the SELECT), chat does not raise: the call's     *)
(* tool entry carries an error payload and the turn goes on.                *)

StoreFaults == {"IntegrityError"}

FailedInStore(s) ==
    /\ call[s].pc = "done"
    /\ call[s].out.kind = "raise"
    /\ call[s].out.val.exc \in StoreFaults

C13_StoreFaultRecovered ==
    \A s \in ChatSessions :
        (chat[s].pc # "idle" /\ FailedInStore(s)) =>
            /\ chat[s].pc # "raised"
            /\ \E i \in DOMAIN chat[s].responses :
                 /\ chat[s].responses[i].tool_call_id = call[s].id
                 /\ "error" \in DOMAIN chat[s].responses[i].content.val

----------------------------------------------------------------------------
(* C14: a get_ticket_price or set_ticket_price call whose arguments lack a  *)
(* required field is rejected before it is dispatched: when the loop of     *)
(* handle_tool_calls takes it up, the store (committed or not) is left as   *)
(* it was, an error entry with the call's id is appended to the responses,  *)
(* and chat does not raise.                                                 *)

Required(name) ==
    CASE name = GET -> {"destination_city"}
      [] name = SET -> {"destination_city", "price"}
      [] OTHER -> {}

MissingRequired(tc) == ~ (Required(tc.name) \subseteq DOMAIN JsonLoads(tc.arguments))

C14_Step ==
    \A s \in ChatSessions :
        ( /\ chat[s].pc = "handling"
          /\ call[s].pc \in {"idle", "done"}
          /\ chat'[s] # chat[s]
          /\ phase' = phase ) =>
            LET h == chat[s]
                tc == h.assistant_message.tool_calls[h.i]
            IN  MissingRequired(tc) =>
                  /\ <<table, dirty, writer>>' = <<table, dirty, writer>>
                  /\ chat'[s].pc # "raised"
                  /\ Len(chat'[s].responses) = Len(h.responses) + 1
                  /\ chat'[s].responses[Len(h.responses) + 1].tool_call_id = tc.id
                  /\ "error" \in DOMAIN chat'[s].responses[Len(h.responses) + 1].content.val

C14_MissingFieldRejected == [][C14_Step]_vars

----------------------------------------------------------------------------
(* C15: a turn that has started ends: chat returns (DONE) once the model    *)
(* gives a response whose finish reason is not tool_calls, after however    *)
(* many tool-call responses, unless a dispatch or a request raised. chat    *)
(* has no cycle limit of its own: it returns only on such a response, never *)
(* on a tool_calls one, and every tool_calls response it received has been  *)
(* followed by a round of dispatches.                                       *)

InTurn(s) == chat[s].pc \in {"awaiting", "handling"}
TurnOver(s) == chat[s].pc \in {"returned", "raised"}

C15_OnlyFinalEnds ==
    \A s \in ChatSessions :
        LET c == chat[s]
            n == Len(c.resps)
        IN  /\ c.pc = "returned" =>
                 /\ n >= 1
                 /\ c.resps[n].finish_reason # "tool_calls"
                 /\ \A j \in 1 .. (n - 1) : c.resps[j].finish_reason = "tool_calls"
            /\ c.pc = "raised" => c.result.kind = "raise"
            /\ c.pc = "awaiting" => c.nreq = n + 1

----------------------------------------------------------------------------
(* C16: when a request to the model fails, on the first request or on one   *)
(* after tool results, chat ends with the exception and returns no answer,  *)
(* and the history the caller passed is as it was passed; a chat call with  *)
(* the same message then sends the same first transcript as the failed one. *)

FailedOnRequest(c) == c.pc = "raised" /\ c.result = Raise("APIError")

C16_Inv ==
    \A s \in ChatSessions :
        /\ chat[s].ui_history = chat[s].history
        /\ FailedOnRequest(chat[s]) =>
             /\ chat[s].result.kind # "return"
             /\ chat[s].nreq = Len(chat[s].resps) + 1

C16_Step ==
    \A s \in ChatSessions :
        /\ (chat[s].pc = "awaiting" /\ chat'[s].pc = "raised") =>
              /\ FailedOnRequest(chat'[s])
              /\ chat'[s].ui_history = chat[s].history
              /\ chat'[s].message = chat[s].message
        /\ (FailedOnRequest(chat[s]) /\ chat'[s].pc = "awaiting") =>
              /\ chat'[s].messages = SubSeq(chat[s].messages, 1, Len(chat[s].history) + 2)
              /\ chat'[s].history = chat[s].history

C16_FailedTurnKeepsHistory == []C16_Inv /\ [][C16_Step]_vars

\* A turn failed, the message was sent again with the history, which has
\* entries, and that turn failed on the request that followed a round of tool
\* calls.
C16_Witness ==
    \E s \in ChatSessions :
        /\ chat[s].attempt > 1
        /\ FailedOnRequest(chat[s])
        /\ Len(chat[s].resps) >= 1
        /\ Len(chat[s].history) > 0
        /\ chat[s].ui_history = chat[s].history

----------------------------------------------------------------------------
(* C17: within one turn the transcript only grows at its end. It begins     *)
(* with the system prompt, then the role and content of each entry of the   *)
(* history passed in, in order, then the new user message, and the first    *)
(* request sends exactly that; each later request sends a transcript that   *)
(* has the previous one as a strict prefix.                                 *)

IsPrefix(a, b) == Len(a) <= Len(b) /\ SubSeq(b, 1, Len(a)) = a

C17_Inv ==
    \A s \in ChatSessions :
        chat[s].pc # "idle" =>
            LET c == chat[s]
                h == Len(c.history)
            IN  /\ Len(c.messages) >= h + 2
                /\ c.messages[1] = [role |-> "system", content |-> SYSTEM_MESSAGE]
                /\ \A i \in 1 .. h :
                     c.messages[1 + i] =
                        [role |-> c.history[i].role, content |-> c.history[i].content]
                /\ c.messages[h + 2] = [role |-> "user", content |-> c.message]
                /\ c.nreq = 1 => Len(c.messages) = h + 2

C17_Step ==
    \A s \in ChatSessions :
        (chat[s].pc # "idle" /\ chat'[s].pc # "idle") =>
            /\ IsPrefix(chat[s].messages, chat'[s].messages)
            /\ chat'[s].nreq > chat[s].nreq =>
                  Len(chat'[s].messages) > Len(chat[s].messages)
            /\ chat'[s].nreq = chat[s].nreq => chat'[s].messages = chat[s].messages

C17_TranscriptAppendOnly == []C17_Inv /\ [][C17_Step]_vars

\* A second request has been made in a turn that was given a history.
C17_Witness ==
    \E s \in ChatSessions :
        /\ chat[s].pc = "awaiting"
        /\ chat[s].nreq = 2
        /\ Len(chat[s].history) > 0
        /\ Len(chat[s].messages) > Len(chat[s].history) + 3

----------------------------------------------------------------------------
(* C18: frame conditions of the tool functions. A step of a tool function   *)
(* called for a city leaves every entry under another key as it was, adds   *)
(* no entry under another key and removes none; and a get for a city that   *)
(* has an entry changes nothing in the store, committed or uncommitted.     *)

C18_Step ==
    \A s \in Sessions :
        (call'[s] # call[s] /\ call'[s].city.type = "str" /\ phase' = phase) =>
            LET c == call'[s]
                k == KeyOf(c)
            IN  /\ (Starts(s) /\ IsGet(c) /\ KeyConflict(table, k)) =>
                      <<table, dirty, writer>>' = <<table, dirty, writer>>
                /\ \A r \in table : r.city # k => r \in table'
                /\ \A r \in table' : r.city # k => r \in table
                /\ \A r \in table : \E r2 \in table' : r2.city = r.city
                /\ dirty' # dirty =>
                      \/ dirty' = {}
                      \/ /\ \A r \in table : r.city # k => r \in dirty'
                         /\ \A r \in dirty' : r.city # k => r \in table
                         /\ \A r \in table : \E r2 \in dirty' : r2.city = r.city

C18_OnlyOwnEntryChanges == [][C18_Step]_vars

\* A set has replaced the price of a seeded city and a get has added a city,
\* and the other seeded entries are there with their prices.
C18_Witness ==
    \E s1, s2 \in Sessions :
        /\ call[s1].pc = "done" /\ IsSet(call[s1]) /\ call[s1].out.kind = "return"
        /\ KeyOf(call[s1]) = london
        /\ call[s2].pc = "done" /\ IsGet(call[s2]) /\ call[s2].out.kind = "return"
        /\ call[s2].out.val.status = "newly_added"
        /\ LastWrite(london).by = "set"
        /\ LastWrite(KeyOf(call[s2])).by = "auto"
        /\ Cardinality(table) = Len(initial_prices) + 1
        /\ \A i \in DOMAIN initial_prices :
             initial_prices[i].city # london =>
                [city |-> initial_prices[i].city,
                 price |-> PyNum(initial_prices[i].price)] \in table

----------------------------------------------------------------------------
(* C19: a price committed by set_ticket_price is never replaced by an       *)
(* auto-generated one. While the last write of a key is a set, no step of   *)
(* any session makes an auto-generation the key's last write, and the       *)
(* entries of the key change only in a step where another set or the        *)
(* seeding writes the key.                                                  *)

C19_Step ==
    \A k \in DOMAIN lastWrite :
        lastWrite[k].by = "set" =>
            /\ k \in DOMAIN lastWrite'
            /\ lastWrite'[k].by # "auto"
            /\ EntriesFor(table', k) # EntriesFor(table, k) =>
                  /\ lastWrite'[k].by \in {"set", "seed"}
                  /\ lastWrite'[k].price # lastWrite[k].price

C19_SetNotReplacedByAuto == [][C19_Step]_vars

\* A get found no row for the city, a set for it then committed, and the get's
\* INSERT was refused: the entry holds the price that was set.
C19_Witness ==
    \E s1, s2 \in Sessions :
        /\ call[s1].pc = "done" /\ IsGet(call[s1])
        /\ call[s1].result = PyNone
        /\ call[s1].out = Raise("IntegrityError")
        /\ call[s2].pc = "done" /\ IsSet(call[s2])
        /\ KeyOf(call[s2]) = KeyOf(call[s1])
        /\ LastWrite(KeyOf(call[s1])).by = "set"
        /\ LastWrite(KeyOf(call[s1])).prior = "absent"
        /\ EntriesFor(table, KeyOf(call[s1])) =
              {[city |-> KeyOf(call[s1]), price |-> call[s2].price]}

====
